---- MODULE Spec2Model ----
(***************************************************************************)
(* A model of the safetensors C++/Rust binding (src/src/lib.rs,            *)
(* src/src/conversion.rs): the four bridged operations serialize,          *)
(* serialize_to_file, deserialize and metadata, the View implementation    *)
(* of the bridged TensorView, prepare, convert_to_hashmap_string and the   *)
(* two Dtype conversions.                                                  *)
(*                                                                         *)
(* The binding delegates the byte format to the safetensors crate          *)
(* (safetensors::tensor::serialize, SafeTensors::deserialize,              *)
(* SafeTensors::read_metadata).  Those callees are modelled here by what   *)
(* they do to the values the binding hands them: the canonical tensor      *)
(* order, the offsets taken from View::data_len, the JSON header padded to *)
(* a multiple of 8 bytes, and the validation of a decoded header.          *)
(*                                                                         *)
(* Values.  A bridged Dtype is written "Dtype::F4"; the crate's dtype is   *)
(* written by its header name "F4".  A HashMap<String, TensorView> is a    *)
(* function on its key set; a HashMap<String, String> is a set of          *)
(* <<key, value>> pairs with distinct keys; an Option is a record with a   *)
(* flag `some`.  A byte buffer is the record                               *)
(*   [present, torn, n, header, data]                                      *)
(* of the length prefix n, the decoded text of the header and the data     *)
(* segment; its length in bytes is 8 + n + Len(data).  A file whose write  *)
(* was interrupted inside the length prefix or inside the header has torn  *)
(* set to "prefix" or "header"; one cut inside the data segment has a      *)
(* shorter data.                                                           *)
(***************************************************************************)
EXTENDS Integers, Sequences, FiniteSets, TLC

VARIABLES
    input,      \* the Vec<PairStrTensorView> the caller passes to serialize
    data_info,  \* the Vec<PairStrStr> the caller passes to serialize
    validates,  \* whether the linked crate validates tensor infos when it builds a header
    bytes,      \* the buffer the caller holds (from serialize, a file, or elsewhere)
    file,       \* the file serialize_to_file wrote
    ser,        \* outcome of the serialize / serialize_to_file call
    de,         \* outcome of the deserialize call
    md,         \* outcome of the metadata call
    conv        \* a pair of dtypes under conversion, and the results

vars == <<input, data_info, validates, bytes, file, ser, de, md, conv>>

(***************************************************************************)
(* Bounds of the model.                                                    *)
(***************************************************************************)
MaxRank == 2
MaxDim == 2
MaxBytes == 3
MaxInfo == 1

(***************************************************************************)
(* ffi::Dtype and the crate's Dtype.                                       *)
(***************************************************************************)
DtypeMisordered ==
    << "Dtype::BOOL", "Dtype::F4", "Dtype::F6_E2M3", "Dtype::F6_E3M2",
       "Dtype::I16", "Dtype::U8", "Dtype::I8", "Dtype::F8_E5M2", "Dtype::F8_E4M3",
       "Dtype::F8_E8M0", "Dtype::U16", "Dtype::F16", "Dtype::BF16",
       "Dtype::I32", "Dtype::U32", "Dtype::F32", "Dtype::F64", "Dtype::I64",
       "Dtype::U64" >>

\* The variants of the bridged enum, in declaration order.
Dtype ==
    << "Dtype::BOOL", "Dtype::F4", "Dtype::F6_E2M3", "Dtype::F6_E3M2",
       "Dtype::U8", "Dtype::I8", "Dtype::F8_E5M2", "Dtype::F8_E4M3",
       "Dtype::F8_E8M0", "Dtype::I16", "Dtype::U16", "Dtype::F16", "Dtype::BF16",
       "Dtype::I32", "Dtype::U32", "Dtype::F32", "Dtype::F64", "Dtype::I64",
       "Dtype::U64" >>

\* The variants of the crate's enum (its derived Ord is this order).
RDtype ==
    << "BOOL", "F4", "F6_E2M3", "F6_E3M2", "U8", "I8", "F8_E5M2", "F8_E4M3",
       "F8_E8M0", "I16", "U16", "F16", "BF16", "I32", "U32", "F32", "F64",
       "I64", "U64" >>

Range(s) == {s[i] : i \in DOMAIN s}

IndexOf(s, x) == CHOOSE i \in DOMAIN s : s[i] = x

\* Width of one element in bits.
bitsize(dtype) ==
    CASE dtype = "F4" -> 4
      [] dtype \in {"F6_E2M3", "F6_E3M2"} -> 6
      [] dtype \in {"BOOL", "U8", "I8", "F8_E5M2", "F8_E4M3", "F8_E8M0"} -> 8
      [] dtype \in {"I16", "U16", "F16", "BF16"} -> 16
      [] dtype \in {"I32", "U32", "F32"} -> 32
      [] dtype \in {"F64", "I64", "U64"} -> 64

\* Download: Cxx -> Rust, with one arm slipped.
IntoRDtypeSlip(d) ==
    CASE d = "Dtype::BOOL" -> "BOOL"
      [] d = "Dtype::F4" -> "F4"
      [] d = "Dtype::F6_E2M3" -> "F6_E2M3"
      [] d = "Dtype::F6_E3M2" -> "F6_E3M2"
      [] d = "Dtype::U8" -> "U8"
      [] d = "Dtype::I8" -> "I8"
      [] d = "Dtype::F8_E5M2" -> "F8_E5M2"
      [] d = "Dtype::F8_E4M3" -> "F8_E5M2"
      [] d = "Dtype::F8_E8M0" -> "F8_E8M0"
      [] d = "Dtype::I16" -> "I16"
      [] d = "Dtype::U16" -> "U16"
      [] d = "Dtype::F16" -> "F16"
      [] d = "Dtype::BF16" -> "BF16"
      [] d = "Dtype::I32" -> "I32"
      [] d = "Dtype::U32" -> "U32"
      [] d = "Dtype::F32" -> "F32"
      [] d = "Dtype::F64" -> "F64"
      [] d = "Dtype::I64" -> "I64"
      [] d = "Dtype::U64" -> "U64"
      [] OTHER -> "todo!"

\* Download: Cxx -> Rust (impl Into<RDtype> for Dtype).
IntoRDtype(d) ==
    CASE d = "Dtype::BOOL" -> "BOOL"
      [] d = "Dtype::F4" -> "F4"
      [] d = "Dtype::F6_E2M3" -> "F6_E2M3"
      [] d = "Dtype::F6_E3M2" -> "F6_E3M2"
      [] d = "Dtype::U8" -> "U8"
      [] d = "Dtype::I8" -> "I8"
      [] d = "Dtype::F8_E5M2" -> "F8_E5M2"
      [] d = "Dtype::F8_E4M3" -> "F8_E4M3"
      [] d = "Dtype::F8_E8M0" -> "F8_E8M0"
      [] d = "Dtype::I16" -> "I16"
      [] d = "Dtype::U16" -> "U16"
      [] d = "Dtype::F16" -> "F16"
      [] d = "Dtype::BF16" -> "BF16"
      [] d = "Dtype::I32" -> "I32"
      [] d = "Dtype::U32" -> "U32"
      [] d = "Dtype::F32" -> "F32"
      [] d = "Dtype::F64" -> "F64"
      [] d = "Dtype::I64" -> "I64"
      [] d = "Dtype::U64" -> "U64"
      [] OTHER -> "todo!"

\* Upload: Rust -> Cxx (impl Into<Dtype> for RDtype).
IntoDtype(r) ==
    CASE r = "BOOL" -> "Dtype::BOOL"
      [] r = "F4" -> "Dtype::F4"
      [] r = "F6_E2M3" -> "Dtype::F6_E2M3"
      [] r = "F6_E3M2" -> "Dtype::F6_E3M2"
      [] r = "U8" -> "Dtype::U8"
      [] r = "I8" -> "Dtype::I8"
      [] r = "F8_E5M2" -> "Dtype::F8_E5M2"
      [] r = "F8_E4M3" -> "Dtype::F8_E4M3"
      [] r = "F8_E8M0" -> "Dtype::F8_E8M0"
      [] r = "I16" -> "Dtype::I16"
      [] r = "U16" -> "Dtype::U16"
      [] r = "F16" -> "Dtype::F16"
      [] r = "BF16" -> "Dtype::BF16"
      [] r = "I32" -> "Dtype::I32"
      [] r = "U32" -> "Dtype::U32"
      [] r = "F32" -> "Dtype::F32"
      [] r = "F64" -> "Dtype::F64"
      [] r = "I64" -> "Dtype::I64"
      [] r = "U64" -> "Dtype::U64"
      [] OTHER -> "todo!"

(***************************************************************************)
(* impl View for TensorView.                                               *)
(***************************************************************************)
ViewData(t) == t.data

ViewDataLenOfData(t) == Len(t.data)

ViewDataLen(t) == t.data_len

ViewShape(t) == t.shape

ViewDtype(t) == IntoRDtype(t.dtype)

(***************************************************************************)
(* Helpers on sequences, numbers and maps.                                 *)
(***************************************************************************)
RECURSIVE Prod(_)
Prod(shape) == IF shape = <<>> THEN 1 ELSE Head(shape) * Prod(Tail(shape))

RECURSIVE Concat(_)
Concat(chunks) == IF chunks = <<>> THEN <<>> ELSE Head(chunks) \o Concat(Tail(chunks))

\* All orders in which the elements of a set can be visited.
Orders(S) ==
    {s \in [1..Cardinality(S) -> S] : \A i, j \in 1..Cardinality(S) : i # j => s[i] # s[j]}

EmptyMap == [k \in {} |-> k]

\* An insert that keeps the value a key already has.
InsertKeepFirst(map, key, value) ==
    [k \in DOMAIN map \cup {key} |-> IF k \in DOMAIN map THEN map[k] ELSE value]

\* HashMap::insert: a later value replaces an earlier one under the same key.
Insert(map, key, value) ==
    [k \in DOMAIN map \cup {key} |-> IF k = key THEN value ELSE map[k]]

\* The names of the model, in the order String's Ord gives them.
NameOrder == << "a", "w" >>

NameLess(x, y) == IndexOf(NameOrder, x) < IndexOf(NameOrder, y)

(***************************************************************************)
(* prepare and convert_to_hashmap_string.                                  *)
(***************************************************************************)
\* The value prepare inserts: the caller's view; the adjusted shape is dropped.
PreparedValue(tensor, shape) == tensor.value

\* shape[n - 1] *= 2
DoubleLast(shape) == [shape EXCEPT ![Len(shape)] = @ * 2]

RECURSIVE PrepareFrom(_, _)
PrepareFrom(tensor_dict, tensors) ==
    IF tensor_dict = <<>> THEN [status |-> "ok", tensors |-> tensors]
    ELSE LET tensor == Head(tensor_dict)
             shape == ViewShape(tensor.value)
             dtype == ViewDtype(tensor.value)
         IN  IF dtype = "todo!" THEN [status |-> "abort", tensors |-> tensors]
             ELSE IF dtype = "F4" /\ Len(shape) = 0
                  THEN [status |-> "abort", tensors |-> tensors]
             ELSE PrepareFrom(
                      Tail(tensor_dict),
                      Insert(tensors, tensor.key,
                             PreparedValue(tensor, IF dtype = "F4" THEN DoubleLast(shape)
                                                   ELSE shape)))

prepare(tensor_dict) == PrepareFrom(tensor_dict, EmptyMap)

RECURSIVE Collect(_, _)
Collect(dict, map) ==
    IF dict = <<>> THEN map
    ELSE Collect(Tail(dict),
                 {p \in map : p[1] # Head(dict).key}
                     \cup {<<Head(dict).key, Head(dict).value>>})

convert_to_hashmap_string_some(dict) == [some |-> TRUE, map |-> Collect(dict, {})]

convert_to_hashmap_string(dict) ==
    IF dict = <<>> THEN [some |-> FALSE, map |-> {}]
    ELSE [some |-> TRUE, map |-> Collect(dict, {})]

(***************************************************************************)
(* The header text: its length in bytes.                                   *)
(***************************************************************************)
RECURSIVE Digits(_)
Digits(k) == IF k < 10 THEN 1 ELSE 1 + Digits(k \div 10)

RECURSIVE SumDigits(_)
SumDigits(nums) == IF nums = <<>> THEN 0 ELSE Digits(Head(nums)) + SumDigits(Tail(nums))

\* [1,2,3]
NumListLen(nums) == 2 + SumDigits(nums) + (IF Len(nums) > 1 THEN Len(nums) - 1 ELSE 0)

\* "text"
StrLen(str) == Len(str) + 2

\* {"dtype":"F32","shape":[1,2,3],"data_offsets":[0,24]}
InfoLen(info) ==
    1 + StrLen("dtype") + 1 + StrLen(info.dtype) + 1
      + StrLen("shape") + 1 + NumListLen(info.shape) + 1
      + StrLen("data_offsets") + 1 + NumListLen(info.data_offsets) + 1

RECURSIVE SumInfoLen(_)
SumInfoLen(entries) ==
    IF entries = <<>> THEN 0
    ELSE StrLen(Head(entries).name) + 1 + InfoLen(Head(entries).info)
             + SumInfoLen(Tail(entries))

RECURSIVE SumPairLen(_)
SumPairLen(map) ==
    IF map = {} THEN 0
    ELSE LET p == CHOOSE q \in map : TRUE
         IN  StrLen(p[1]) + 1 + StrLen(p[2]) + SumPairLen(map \ {p})

Commas(k) == IF k > 1 THEN k - 1 ELSE 0

\* "__metadata__":{"format":"v1"}
MetadataLen(map) == StrLen("__metadata__") + 1 + 2 + SumPairLen(map) + Commas(Cardinality(map))

HeaderTextLen(header) ==
    2 + (IF header.metadata.some THEN MetadataLen(header.metadata.map) ELSE 0)
      + SumInfoLen(header.tensors)
      + Commas(Len(header.tensors) + IF header.metadata.some THEN 1 ELSE 0)

\* The header is padded with spaces to a multiple of 8 bytes.
AlignedLen(len) == ((len + 7) \div 8) * 8

BufferLen(buffer) == 8 + buffer.n + Len(buffer.data)

NoBuf == [present |-> FALSE]

(***************************************************************************)
(* safetensors::tensor::serialize, as called by serialize.                 *)
(***************************************************************************)
RDtypeRank(dtype) == IndexOf(RDtype, dtype)

\* Descending dtype, then ascending name.
Precedes(tensors, x, y) ==
    LET l == RDtypeRank(ViewDtype(tensors[x]))
        r == RDtypeRank(ViewDtype(tensors[y]))
    IN  l > r \/ (l = r /\ NameLess(x, y))

SortedNames(tensors) ==
    CHOOSE s \in Orders(DOMAIN tensors) :
        \A i, j \in DOMAIN s : i < j => Precedes(tensors, s[i], s[j])

RECURSIVE Layout(_, _, _)
Layout(tensors, names, offset) ==
    IF names = <<>> THEN <<>>
    ELSE LET tensor == tensors[Head(names)]
             n == ViewDataLen(tensor)
         IN  << [name |-> Head(names),
                 info |-> [dtype |-> ViewDtype(tensor),
                           shape |-> ViewShape(tensor),
                           data_offsets |-> <<offset, offset + n>>]] >>
                 \o Layout(tensors, Tail(names), offset + n)

\* Metadata::validate: the end of the data segment, or the first error.
RECURSIVE ValidateFrom(_, _)
ValidateFrom(entries, start) ==
    IF entries = <<>> THEN [ok |-> TRUE, err |-> "", end |-> start]
    ELSE LET info == Head(entries).info
             s == info.data_offsets[1]
             e == info.data_offsets[2]
             nbits == Prod(info.shape) * bitsize(info.dtype)
         IN  IF s # start \/ e < s
                 THEN [ok |-> FALSE, err |-> "InvalidOffset", end |-> start]
             ELSE IF nbits % 8 # 0
                 THEN [ok |-> FALSE, err |-> "MisalignedSlice", end |-> start]
             ELSE IF e - s # nbits \div 8
                 THEN [ok |-> FALSE, err |-> "TensorInvalidInfo", end |-> start]
             ELSE ValidateFrom(Tail(entries), e)

validate(entries) == ValidateFrom(entries, 0)

TensorSerialize(tensors, info, checked) ==
    LET names == SortedNames(tensors)
        hmetadata == Layout(tensors, names, 0)
        v == IF checked THEN validate(hmetadata) ELSE [ok |-> TRUE, err |-> "", end |-> 0]
        header == [metadata |-> info, tensors |-> hmetadata]
    IN  IF ~v.ok THEN [ok |-> FALSE, err |-> v.err, buffer |-> NoBuf]
        ELSE [ok |-> TRUE, err |-> "",
              buffer |-> [present |-> TRUE,
                          torn |-> "",
                          n |-> AlignedLen(HeaderTextLen(header)),
                          header |-> header,
                          data |-> Concat([i \in DOMAIN names |-> ViewData(tensors[names[i]])])]]

\* serialize and serialize_to_file up to what they do with the buffer.
serialize(data, info, checked) ==
    LET prepared == prepare(data)
    IN  IF prepared.status = "abort" THEN [status |-> "abort", err |-> "", buffer |-> NoBuf]
        ELSE LET out == TensorSerialize(prepared.tensors,
                                        convert_to_hashmap_string(info), checked)
             IN  IF out.ok THEN [status |-> "ok", err |-> "", buffer |-> out.buffer]
                 ELSE [status |-> "err", err |-> out.err, buffer |-> NoBuf]

(***************************************************************************)
(* SafeTensors::read_metadata and SafeTensors::deserialize, as called by   *)
(* deserialize and metadata.                                               *)
(***************************************************************************)
OffsetsLeq(a, b) == a[1] < b[1] \/ (a[1] = b[1] /\ a[2] <= b[2])

\* The decoded entries sorted by data_offsets.
ByOffsets(entries) ==
    LET s == CHOOSE o \in Orders(DOMAIN entries) :
                 \A i, j \in DOMAIN o :
                     i < j => OffsetsLeq(entries[o[i]].info.data_offsets,
                                         entries[o[j]].info.data_offsets)
    IN  [i \in DOMAIN entries |-> entries[s[i]]]

read_metadata(buffer) ==
    LET entries == buffer.header.tensors
        none == [metadata |-> [some |-> FALSE, map |-> {}], tensors |-> <<>>]
    IN  IF buffer.torn = "prefix"
            THEN [ok |-> FALSE, err |-> "HeaderTooSmall", metadata |-> none]
        ELSE IF buffer.torn = "header"
            THEN [ok |-> FALSE, err |-> "InvalidHeaderLength", metadata |-> none]
        ELSE IF \E i \in DOMAIN entries : entries[i].info.dtype \notin Range(RDtype)
            THEN [ok |-> FALSE, err |-> "InvalidHeaderDeserialization", metadata |-> none]
        ELSE LET sorted == ByOffsets(entries)
                 v == validate(sorted)
             IN  IF ~v.ok THEN [ok |-> FALSE, err |-> v.err, metadata |-> none]
                 ELSE IF v.end + 8 + buffer.n # BufferLen(buffer)
                     THEN [ok |-> FALSE, err |-> "MetadataIncompleteBuffer", metadata |-> none]
                 ELSE [ok |-> TRUE, err |-> "",
                       metadata |-> [metadata |-> buffer.header.metadata, tensors |-> sorted]]

(***************************************************************************)
(* deserialize and metadata.                                               *)
(***************************************************************************)
\* shape[n - 1] /= 2
HalveLast(shape) == [shape EXCEPT ![Len(shape)] = @ \div 2]

ExposedShapeKept(dtype, shape) == shape

\* The shape deserialize reports for a tensor of the buffer.
ExposedShape(dtype, shape) == IF dtype = "F4" THEN HalveLast(shape) ELSE shape

Item(entry, data) ==
    LET begin == entry.info.data_offsets[1]
        end == entry.info.data_offsets[2]
    IN  [key |-> entry.name,
         value |-> [shape |-> ExposedShape(entry.info.dtype, entry.info.shape),
                    dtype |-> IntoDtype(entry.info.dtype),
                    data |-> SubSeq(data, begin + 1, end),
                    data_len |-> end - begin]]

\* order: the order in which the crate's name index hands out the tensors.
deserialize(buffer, order) ==
    LET r == read_metadata(buffer)
        tensors == r.metadata.tensors
    IN  IF ~r.ok THEN [status |-> "err", err |-> r.err, items |-> <<>>]
        ELSE IF \E i \in DOMAIN tensors :
                    tensors[i].info.dtype = "F4" /\ Len(tensors[i].info.shape) = 0
            THEN [status |-> "abort", err |-> "", items |-> <<>>]
        ELSE [status |-> "ok", err |-> "",
              items |-> [i \in DOMAIN tensors |-> Item(tensors[order[i]], buffer.data)]]

\* order: the order in which the metadata map hands out its pairs.
metadata(buffer, order) ==
    LET r == read_metadata(buffer)
    IN  IF ~r.ok THEN [status |-> "err", err |-> r.err, items |-> <<>>]
        ELSE IF ~r.metadata.metadata.some THEN [status |-> "ok", err |-> "", items |-> <<>>]
        ELSE [status |-> "ok", err |-> "",
              items |-> [i \in DOMAIN order |-> [key |-> order[i][1], value |-> order[i][2]]]]

(***************************************************************************)
(* The inputs of the model.                                                *)
(***************************************************************************)
Names == Range(NameOrder)

DtypeSample == {"Dtype::F4", "Dtype::U8", "Dtype::I16"}

Shapes == UNION {[1..r -> 1..MaxDim] : r \in 0..MaxRank}

Bytes(fill, len) == [i \in 1..len |-> fill + i]

\* The views whose bytes count up from fill.
Views(fill) ==
    [shape : Shapes, dtype : DtypeSample,
     data : {Bytes(fill, l) : l \in 0..MaxBytes}, data_len : 0..MaxBytes]

\* Views whose data, data_len, shape and dtype agree.
Sized(v) ==
    /\ v.data_len = Len(v.data)
    /\ 8 * v.data_len = Prod(v.shape) * bitsize(IntoRDtype(v.dtype))

Entries(fill) == [key : Names, value : Views(fill)]

SizedEntries(fill) == {x \in Entries(fill) : Sized(x.value)}

\* No tensor, one tensor of any kind, or two tensors that are each well sized.
Inputs ==
    {<<>>} \cup {<<x>> : x \in Entries(16)}
           \cup {<<x, y>> : x \in SizedEntries(16), y \in SizedEntries(32)}

\* Entries named "a", a scalar or a vector, that carry data_len bytes whatever
\* their shape and dtype ask for.
WholeEntries(fill) ==
    {x \in Entries(fill) : /\ x.key = "a"
                           /\ Len(x.value.shape) <= 1
                           /\ x.value.data_len = Len(x.value.data)}

\* Two tensors of which one may be wrongly sized for its shape and dtype; it
\* comes first or second, next to a tensor of another name or of its own.
MixedInputs ==
    {<<x, y>> : x \in WholeEntries(16), y \in SizedEntries(32)}
        \cup {<<x, y>> : x \in SizedEntries(16), y \in WholeEntries(32)}

InfoPairs == [key : {"format"}, value : {"v1"}]

Infos == UNION {[1..k -> InfoPairs] : k \in 0..MaxInfo}

\* Buffers that did not come from serialize: one tensor entry, any header.
ForeignBuffers ==
    {[present |-> TRUE,
      torn |-> "",
      n |-> AlignedLen(HeaderTextLen(h)),
      header |-> h,
      data |-> Bytes(16, l)] :
        h \in {[metadata |-> [some |-> FALSE, map |-> {}],
                tensors |-> <<[name |-> "w",
                               info |-> [dtype |-> d, shape |-> s,
                                         data_offsets |-> <<b, e>>]]>>] :
                   d \in {"F4", "U8", "I16", "F128"}, s \in Shapes,
                   b \in 0..1, e \in 0..MaxBytes},
        l \in 0..MaxBytes}

NoCall == [status |-> "none", err |-> "", call |-> ""]

NoItems == [status |-> "none", err |-> "", items |-> <<>>]

NoConv == [dir |-> "none", src |-> <<>>, mid |-> <<>>, res |-> <<>>]

Init ==
    /\ \/ validates = TRUE
       \/ validates = FALSE
    /\ \/ /\ input \in Inputs
          /\ data_info \in Infos
          /\ bytes = NoBuf
       \/ /\ input \in MixedInputs
          /\ data_info = <<>>
          /\ bytes = NoBuf
       \/ /\ input = <<>>
          /\ data_info = <<>>
          /\ bytes \in ForeignBuffers
    /\ file = NoBuf
    /\ ser = NoCall
    /\ de = NoItems
    /\ md = NoItems
    /\ conv = NoConv

Running == ser.status # "abort" /\ de.status # "abort"

Serialize ==
    /\ Running
    /\ ser.status = "none" /\ de.status = "none" /\ md.status = "none"
    /\ LET r == serialize(input, data_info, validates)
       IN  /\ ser' = [status |-> r.status, err |-> r.err, call |-> "serialize"]
           /\ bytes' = IF r.status = "ok" THEN r.buffer ELSE bytes
    /\ UNCHANGED <<input, data_info, validates, file, de, md, conv>>

\* What a write of the buffer leaves on disk when it fails: no file (it could
\* not be created), or a file cut inside the length prefix, inside the header
\* or inside the data segment.
TornFiles(buffer) ==
    {NoBuf, [buffer EXCEPT !.torn = "prefix", !.data = <<>>],
            [buffer EXCEPT !.torn = "header", !.data = <<>>]}
        \cup {[buffer EXCEPT !.data = SubSeq(buffer.data, 1, k)] :
                  k \in 0..(Len(buffer.data) - 1)}

SerializeToFile ==
    /\ Running
    /\ ser.status = "none" /\ de.status = "none" /\ md.status = "none"
    /\ LET r == serialize(input, data_info, validates)
       IN  \/ /\ ser' = [status |-> r.status, err |-> r.err, call |-> "serialize_to_file"]
              /\ file' = IF r.status = "ok" THEN r.buffer ELSE file
           \/ /\ r.status = "ok"
              /\ ser' = [status |-> "err", err |-> "IoError", call |-> "serialize_to_file"]
              /\ file' \in TornFiles(r.buffer)
    /\ UNCHANGED <<input, data_info, validates, bytes, de, md, conv>>

\* The caller reads the file back.
LoadFile ==
    /\ Running
    /\ file.present /\ ~bytes.present
    /\ bytes' = file
    /\ UNCHANGED <<input, data_info, validates, file, ser, de, md, conv>>

Deserialize ==
    /\ Running
    /\ bytes.present /\ de.status = "none"
    /\ \E order \in Orders(DOMAIN bytes.header.tensors) :
           de' = deserialize(bytes, order)
    /\ UNCHANGED <<input, data_info, validates, bytes, file, ser, md, conv>>

Metadata ==
    /\ Running
    /\ bytes.present /\ md.status = "none"
    /\ \E order \in Orders(bytes.header.metadata.map) :
           md' = metadata(bytes, order)
    /\ UNCHANGED <<input, data_info, validates, bytes, file, ser, de, conv>>

Next == Serialize \/ SerializeToFile \/ LoadFile \/ Deserialize \/ Metadata

Spec == Init /\ [][Next]_vars

(***************************************************************************)
(* The dtype conversions on their own: a pair of dtypes converted one way  *)
(* and back.                                                               *)
(***************************************************************************)
InitDtype ==
    /\ input = <<>> /\ data_info = <<>> /\ validates = FALSE
    /\ bytes = NoBuf /\ file = NoBuf
    /\ ser = NoCall /\ de = NoItems /\ md = NoItems
    /\ \/ \E a, b \in Range(Dtype) :
              conv = [dir |-> "down", src |-> <<a, b>>, mid |-> <<>>, res |-> <<>>]
       \/ \E a, b \in Range(RDtype) :
              conv = [dir |-> "up", src |-> <<a, b>>, mid |-> <<>>, res |-> <<>>]

Download ==
    /\ \/ /\ conv.dir = "down" /\ conv.mid = <<>>
          /\ conv' = [conv EXCEPT !.mid = <<IntoRDtype(conv.src[1]), IntoRDtype(conv.src[2])>>]
       \/ /\ conv.dir = "up" /\ conv.mid # <<>> /\ conv.res = <<>>
          /\ conv' = [conv EXCEPT !.res = <<IntoRDtype(conv.mid[1]), IntoRDtype(conv.mid[2])>>]
    /\ UNCHANGED <<input, data_info, validates, bytes, file, ser, de, md>>

Upload ==
    /\ \/ /\ conv.dir = "up" /\ conv.mid = <<>>
          /\ conv' = [conv EXCEPT !.mid = <<IntoDtype(conv.src[1]), IntoDtype(conv.src[2])>>]
       \/ /\ conv.dir = "down" /\ conv.mid # <<>> /\ conv.res = <<>>
          /\ conv' = [conv EXCEPT !.res = <<IntoDtype(conv.mid[1]), IntoDtype(conv.mid[2])>>]
    /\ UNCHANGED <<input, data_info, validates, bytes, file, ser, de, md>>

NextDtype == Download \/ Upload

SpecDtype == InitDtype /\ [][NextDtype]_vars

(***************************************************************************)
(* Vocabulary of the properties.                                           *)
(***************************************************************************)
\* The buffer the successful call produced (returned, or written to the file).
Produced == IF ser.call = "serialize" THEN bytes ELSE file

Succeeded == ser.status = "ok"

\* The caller holds the very buffer the successful call produced.
HoldsProduced == Succeeded /\ bytes.present /\ bytes = Produced

InputNames == {input[i].key : i \in DOMAIN input}

UniqueNames == \A i, j \in DOMAIN input : input[i].key = input[j].key => i = j

\* The view the caller passed last under a name.
LastPassed(name) ==
    input[CHOOSE i \in DOMAIN input :
              /\ input[i].key = name
              /\ \A j \in DOMAIN input : input[j].key = name => j <= i].value

EntryLen(entry) == entry.info.data_offsets[2] - entry.info.data_offsets[1]

Contiguous(entries) ==
    /\ entries # <<>> => entries[1].info.data_offsets[1] = 0
    /\ \A i \in DOMAIN entries :
           i > 1 => entries[i].info.data_offsets[1] = entries[i - 1].info.data_offsets[2]

Front(shape) == SubSeq(shape, 1, Len(shape) - 1)

(***************************************************************************)
(* C1.  Round trip: for a valid input (uniquely named tensors whose data,  *)
(* data_len, shape and dtype agree, F4 included), deserialize of the       *)
(* serialized buffer returns the same names and, per name, the same shape, *)
(* dtype and bytes, and metadata returns the same key/value pairs.         *)
(***************************************************************************)
C1_RoundTrip ==
    (/\ HoldsProduced
     /\ UniqueNames
     /\ \A i \in DOMAIN input : Sized(input[i].value))
    => /\ de.status # "none" =>
           /\ de.status = "ok"
           /\ {de.items[i].key : i \in DOMAIN de.items} = InputNames
           /\ \A i \in DOMAIN de.items :
                  LET got == de.items[i].value
                      put == LastPassed(de.items[i].key)
                  IN  /\ got.shape = put.shape
                      /\ got.dtype = put.dtype
                      /\ got.data = put.data
       /\ md.status # "none" =>
           /\ md.status = "ok"
           /\ {<<md.items[i].key, md.items[i].value>> : i \in DOMAIN md.items}
                  = {<<data_info[i].key, data_info[i].value>> : i \in DOMAIN data_info}

(***************************************************************************)
(* C2.  Duplicate names: a call of serialize or serialize_to_file whose    *)
(* tensor list holds a name twice fails (serialize with the duplicate-name *)
(* error) and produces no buffer and no file.                              *)
(***************************************************************************)
C2_DuplicateRejected ==
    (ser.status # "none" /\ ~UniqueNames)
    => /\ ser.status = "err"
       /\ ser.call = "serialize" => ser.err = "DuplicateName"
       /\ ~Produced.present

(***************************************************************************)
(* C3 as stated.  For uniquely named tensors the data segment follows the  *)
(* input order: the i-th header entry is the i-th input tensor, offsets    *)
(* contiguous from 0.                                                      *)
(***************************************************************************)
C3_InputOrder ==
    (Succeeded /\ UniqueNames)
    => LET entries == Produced.header.tensors
       IN  /\ Len(entries) = Len(input)
           /\ \A i \in DOMAIN entries : entries[i].name = input[i].key
           /\ Contiguous(entries)

(***************************************************************************)
(* C3 as amended.  The tensors are laid out with contiguous increasing     *)
(* offsets from 0 in the codec's canonical order, descending dtype and     *)
(* then ascending name, each spanning the data_len passed for it; the      *)
(* input order plays no part.                                              *)
(***************************************************************************)
C3_CanonicalOrder ==
    Succeeded
    => LET entries == Produced.header.tensors
       IN  /\ {entries[i].name : i \in DOMAIN entries} = InputNames
           /\ Len(entries) = Cardinality(InputNames)
           /\ Contiguous(entries)
           /\ \A i \in DOMAIN entries :
                  EntryLen(entries[i]) = LastPassed(entries[i].name).data_len
           /\ \A i, j \in DOMAIN entries :
                  i < j =>
                      LET l == IndexOf(RDtype, entries[i].info.dtype)
                          r == IndexOf(RDtype, entries[j].info.dtype)
                      IN  l > r \/ (l = r /\ NameLess(entries[i].name, entries[j].name))

\* Two uniquely named tensors were serialized and laid out against the input order.
C3_Witness ==
    /\ Succeeded /\ UniqueNames /\ Len(input) = 2
    /\ Produced.header.tensors[1].name = input[2].key
    /\ Produced.header.tensors[2].info.data_offsets[1] > 0

MisSized(v) == bitsize(IntoRDtype(v.dtype)) * Prod(v.shape) # 8 * v.data_len

\* Some tensor that prepare keeps, the last passed under its name, is mis-sized.
KeptMisSized == \E name \in InputNames : MisSized(LastPassed(name))

C5_LogicalShape ==
    de.status = "ok"
    => \A i \in DOMAIN de.items :
           de.items[i].value.dtype = "Dtype::F4"
               => Prod(de.items[i].value.shape) = 2 * de.items[i].value.data_len

(***************************************************************************)
(* C5 as amended.  Every F4 tensor deserialize returns has the header's    *)
(* shape with the last dimension halved (integer division), the shape of   *)
(* the bytes as stored; when the header's last dimension is even, the      *)
(* product of the reported shape equals the byte length.                   *)
(***************************************************************************)
C5_StoredShape ==
    de.status = "ok"
    => \A i \in DOMAIN de.items :
           de.items[i].value.dtype = "Dtype::F4"
               => \E e \in Range(bytes.header.tensors) :
                      LET got == de.items[i].value.shape
                          n == Len(e.info.shape)
                      IN  /\ e.name = de.items[i].key
                          /\ Len(got) = n
                          /\ \A j \in 1..(n - 1) : got[j] = e.info.shape[j]
                          /\ 2 * got[n] <= e.info.shape[n]
                          /\ e.info.shape[n] <= 2 * got[n] + 1
                          /\ e.info.shape[n] % 2 = 0
                                 => Prod(got) = de.items[i].value.data_len

\* deserialize returned an F4 tensor of one or more bytes.
C5_Witness ==
    /\ de.status = "ok"
    /\ \E i \in DOMAIN de.items :
           /\ de.items[i].value.dtype = "Dtype::F4"
           /\ de.items[i].value.data_len > 0

(***************************************************************************)
(* C6.  Every buffer serialize produces passes validation: deserialize of  *)
(* it succeeds.                                                            *)
(***************************************************************************)
C6_OutputValidates ==
    (HoldsProduced /\ de.status # "none") => de.status = "ok"

(***************************************************************************)
(* C7 as stated.  The declaration order of Dtype is non-decreasing in      *)
(* element size in bits.                                                   *)
(***************************************************************************)
C7_BitsOrder ==
    (conv.dir = "down" /\ IndexOf(Dtype, conv.src[1]) < IndexOf(Dtype, conv.src[2]))
    => bitsize(IntoRDtype(conv.src[1])) <= bitsize(IntoRDtype(conv.src[2]))

(***************************************************************************)
(* C7 as amended.  The declaration order of Dtype is non-decreasing in     *)
(* element size in whole bytes (the bit width rounded up to bytes): BOOL,  *)
(* one byte wide, is declared before the 4-bit and 6-bit types.            *)
(***************************************************************************)
C7_BytesOrder ==
    (conv.dir = "down" /\ IndexOf(Dtype, conv.src[1]) < IndexOf(Dtype, conv.src[2]))
    => (bitsize(IntoRDtype(conv.src[1])) + 7) \div 8
           <= (bitsize(IntoRDtype(conv.src[2])) + 7) \div 8

\* A wider type in bits declared before a narrower one of the same byte size.
C7_Witness ==
    /\ conv.dir = "down"
    /\ conv.src = << "Dtype::BOOL", "Dtype::F4" >>

(***************************************************************************)
(* C8.  The two dtype conversions are total on the 19 dtypes and mutually  *)
(* inverse: converting one way and back returns the dtype, and distinct    *)
(* dtypes convert to distinct dtypes.                                      *)
(***************************************************************************)
C8_Bijection ==
    /\ conv.mid # <<>> =>
           /\ \A i \in 1..2 :
                  conv.mid[i] \in (IF conv.dir = "down" THEN Range(RDtype) ELSE Range(Dtype))
           /\ conv.src[1] # conv.src[2] => conv.mid[1] # conv.mid[2]
    /\ conv.res # <<>> => conv.res = conv.src

\* Two distinct dtypes were converted one way and back.
C8_Witness ==
    /\ conv.res # <<>>
    /\ conv.src[1] # conv.src[2]

(***************************************************************************)
(* C9 as stated.  serialize of no tensors and no metadata produces exactly *)
(* 8 + 2 bytes: the length prefix and the header "{}".                     *)
(***************************************************************************)
C9_TenBytes ==
    (Succeeded /\ input = <<>> /\ data_info = <<>>) => BufferLen(Produced) = 8 + 2

(***************************************************************************)
(* C9 as amended.  serialize of no tensors and no metadata produces        *)
(* exactly 8 + 8 bytes: the length prefix and the header "{}" padded with  *)
(* spaces to 8 bytes, with no __metadata__ key and an empty data segment;  *)
(* deserialize of that buffer returns no tensors and metadata of it        *)
(* returns no pairs.                                                       *)
(***************************************************************************)
C9_SixteenBytes ==
    (Succeeded /\ input = <<>> /\ data_info = <<>>)
    => /\ BufferLen(Produced) = 8 + 8
       /\ Produced.n = 8
       /\ ~Produced.header.metadata.some
       /\ Produced.header.tensors = <<>>
       /\ Produced.data = <<>>
       /\ (HoldsProduced /\ de.status # "none") => (de.status = "ok" /\ de.items = <<>>)
       /\ (HoldsProduced /\ md.status # "none") => (md.status = "ok" /\ md.items = <<>>)

\* The empty input was serialized, and the buffer deserialized and its metadata read.
C9_Witness ==
    /\ HoldsProduced /\ input = <<>> /\ data_info = <<>>
    /\ de.status = "ok" /\ md.status = "ok"

(***************************************************************************)
(* C10.  No call ends in a panic: serialize and deserialize return a       *)
(* result or an error value on every input, an F4 tensor of rank 0         *)
(* included.                                                               *)
(***************************************************************************)
C10_NoAbort == ser.status # "abort" /\ de.status # "abort"

====
